---- MODULE Spec2Model ----
(***************************************************************************)
(* Model of the Q-vector table producer (qVectorsTable.cxx).               *)
(*                                                                         *)
(* Numbers are fixed point.  A Q-vector component is an integer in units   *)
(* of 1/QScale, a centrality is an integer in units of 1/CentScale, a      *)
(* pseudorapidity and a transverse momentum are integers in hundredths,    *)
(* an azimuth is a number of quarter turns (so that cos and sin are        *)
(* integers), an amplitude is an integer, and a calibration coefficient    *)
(* is an integer in units of 1/QScale.                                     *)
(***************************************************************************)
EXTENDS Integers, Sequences, FiniteSets, TLC

\* ------------------------------------------------------------------ units
QScale == 100
CentScale == 2
MaxRun == 2
MaxTracks == 2
WeightScale == 100

\* ------------------------------------------------------- program constants
kFT0C == 0
kFT0A == 1
kFT0M == 2
kFV0A == 3
kBPos == 4
kBNeg == 5

NoRun == -1
CentLimit == 80
CentSentinel == 110
EtaMin == 10
EtaMax == 80
cfgMinPtOnTPC == 15
cfgMaxPtOnTPC == 500
FT0COffset == 96
cfgCentEsti == 2
InitialRun == 0

Undefined == 999 * QScale
Disabled == (0 - 999) * QScale

DetNames == {"QvectorBNegs", "QvectorBPoss", "QvectorFV0As",
             "QvectorFT0Ms", "QvectorFT0As", "QvectorFT0Cs"}

DetName(i) == CASE i = kFT0C -> "QvectorFT0Cs"
                [] i = kFT0A -> "QvectorFT0As"
                [] i = kFT0M -> "QvectorFT0Ms"
                [] i = kFV0A -> "QvectorFV0As"
                [] i = kBPos -> "QvectorBPoss"
                [] OTHER -> "QvectorBNegs"

\* ------------------------------------------------------------- arithmetic
Abs(x) == IF x < 0 THEN 0 - x ELSE x

\* Division of the fixed-point numbers, rounding toward zero.
TruncDiv(a, b) ==
  IF b = 0 THEN 0
  ELSE LET q == Abs(a) \div Abs(b)
       IN  IF (a < 0) = (b < 0) THEN q ELSE 0 - q

Cos4(q) == CASE q % 4 = 0 -> 1 [] q % 4 = 1 -> 0 [] q % 4 = 2 -> 0 - 1 [] OTHER -> 0
Sin4(q) == CASE q % 4 = 0 -> 0 [] q % 4 = 1 -> 1 [] q % 4 = 2 -> 0 [] OTHER -> 0 - 1

\* ------------------------------------------------------------- EventPlaneHelper
\* Azimuth of a channel (quarter turns), shifted by the alignment offset.
ChannelPhi(det, chId, offset) == (chId + det + offset) % 4

\* helperEP.SumQvectors: Q += ampl * exp(i n phi), sum += ampl.
SumQvectors(det, chId, ampl, nmode, acc, offset) ==
  [re  |-> acc.re + ampl * Cos4(nmode * ChannelPhi(det, chId, offset)),
   im  |-> acc.im + ampl * Sin4(nmode * ChannelPhi(det, chId, offset)),
   sum |-> acc.sum + ampl]

\* helperEP.DoRecenter: Q' = Q - (x0, y0).
DoRecenter(q, x0, y0) == [re |-> q.re - x0, im |-> q.im - y0]

\* helperEP.DoTwist: mixing of the two components by the twist coefficients.
DoTwist(q, lp, lm) ==
  [re |-> q.re - TruncDiv(lm * q.im, QScale),
   im |-> q.im - TruncDiv(lp * q.re, QScale)]

\* helperEP.DoRescale: each component divided by its own width.
DoRescale(q, ap, am) ==
  [re |-> TruncDiv(q.re * QScale, ap), im |-> TruncDiv(q.im * QScale, am)]

\* ------------------------------------------------------------- calibration tables
NullTable == 0

\* TH3F::GetBinContent(bin, k, sub) of the table stored under .../v<h>.
GetBinContent(h, bin, k, sub) ==
  CASE k = 1 -> h + sub + (bin % 2)
    [] k = 2 -> 0 - (2 * h + sub)
    [] k = 3 -> 10 * (h - 1)
    [] k = 4 -> 0 - 10
    [] k = 5 -> QScale * h
    [] OTHER -> QScale \div 2

\* ------------------------------------------------------------- SelTrack
SelTrack(track) ==
  /\ ~(track.pt < cfgMinPtOnTPC)
  /\ ~(track.pt > cfgMaxPtOnTPC)
  /\ track.passedITSNCls
  /\ track.passedITSChi2NDF
  /\ track.passedITSHits
  /\ track.passedTPCCrossedRowsOverNCls
  /\ track.passedTPCChi2NDF
  /\ track.passedDCAxy
  /\ track.passedDCAz

\* ------------------------------------------------------------- CalQvec
AboveEps(sum) == sum > 0

ZeroAcc == [re |-> 0, im |-> 0, sum |-> 0]

Normalized(acc) ==
  [re |-> TruncDiv(acc.re * QScale, acc.sum), im |-> TruncDiv(acc.im * QScale, acc.sum)]

Const2(v) == [re |-> v, im |-> v]

\* The channel loops: each channel is added to the sub-system's own
\* accumulator (det) and, for FT0, to the FT0M accumulator (m).
RECURSIVE ChannelLoop(_, _, _, _, _, _, _, _)
ChannelLoop(det, chans, shift, i, nmode, gain, offset, accs) ==
  IF i > Len(chans) THEN accs
  ELSE LET ampl == chans[i].ampl
           chId == chans[i].ch + shift
           cor  == TruncDiv(ampl, gain[chId])
       IN  ChannelLoop(det, chans, shift, i + 1, nmode, gain, offset,
             [det |-> SumQvectors(det, chId, cor, nmode, accs.det, offset),
              m   |-> SumQvectors(det, chId, cor, nmode, accs.m, offset)])

\* StartFT0C without the reset of line 307: the FT0C loop goes on from the
\* vector the FT0A loop accumulated.
StartFT0CNoReset(afterA) == [det |-> [afterA.det EXCEPT !.sum = 0], m |-> afterA.m]

\* The accumulators the FT0C loop starts from, lines 278 and 307: its own
\* vector reset, its sum zero, the FT0M accumulator as the FT0A loop left it.
StartFT0C(afterA) == [det |-> ZeroAcc, m |-> afterA.m]

FT0Block(coll, use) ==
  coll.has_foundFT0 /\ (use["QvectorFT0As"] \/ use["QvectorFT0Cs"] \/ use["QvectorFT0Ms"])

FT0AVector(useA, sumA, accA) ==
  IF useA
    THEN IF AboveEps(sumA) THEN Normalized(accA) ELSE Const2(0)
    ELSE Const2(Undefined)

FT0CVector(useC, sumC, accC) ==
  IF useC
    THEN IF AboveEps(sumC) THEN Normalized(accC) ELSE Const2(Undefined)
    ELSE Const2(Disabled)

FT0MVector(useM, sumM, accM) ==
  IF AboveEps(sumM) /\ useM THEN Normalized(accM) ELSE Const2(Undefined)

FV0Block(coll, use) == coll.has_foundFV0 /\ use["QvectorFV0As"]

FV0AVector(sumV, accV) ==
  IF AboveEps(sumV) THEN Normalized(accV) ELSE Const2(Undefined)

EtaOutside(eta) == Abs(eta) < EtaMin \/ Abs(eta) > EtaMax

\* ToBPos without its test of the sign of eta.
ToBPosAnyEta(trk, use) == use["QvectorBPoss"]

ToBPos(trk, use) == trk.eta > 0 /\ use["QvectorBPoss"]
ToBNeg(trk, use) == trk.eta < 0 /\ use["QvectorBNegs"]

ZeroTrk == [posRe |-> 0, posIm |-> 0, negRe |-> 0, negIm |-> 0,
            nTrkBPos |-> 0, nTrkBNeg |-> 0, posLabel |-> <<>>, negLabel |-> <<>>]

RECURSIVE TrackLoop(_, _, _, _, _, _, _)
TrackLoop(tracks, i, nmode, use, posLabel, negLabel, t) ==
  IF i > Len(tracks)
    THEN [t EXCEPT !.posLabel = posLabel, !.negLabel = negLabel]
  ELSE LET trk == tracks[i]
       IN  IF ~SelTrack(trk) \/ EtaOutside(trk.eta)
             THEN TrackLoop(tracks, i + 1, nmode, use, posLabel, negLabel, t)
           ELSE IF ToBPos(trk, use)
             THEN TrackLoop(tracks, i + 1, nmode, use,
                    Append(posLabel, trk.globalIndex), negLabel,
                    [t EXCEPT !.posRe = @ + trk.pt * Cos4(trk.phi * nmode),
                              !.posIm = @ + trk.pt * Sin4(trk.phi * nmode),
                              !.nTrkBPos = @ + 1])
           ELSE IF ToBNeg(trk, use)
             THEN TrackLoop(tracks, i + 1, nmode, use,
                    posLabel, Append(negLabel, trk.globalIndex),
                    [t EXCEPT !.negRe = @ + trk.pt * Cos4(trk.phi * nmode),
                              !.negIm = @ + trk.pt * Sin4(trk.phi * nmode),
                              !.nTrkBNeg = @ + 1])
           ELSE TrackLoop(tracks, i + 1, nmode, use, posLabel, negLabel, t)

TrackVector(sumRe, sumIm, nTrk) ==
  IF nTrk > 0
    THEN [re |-> TruncDiv(sumRe, nTrk), im |-> TruncDiv(sumIm, nTrk)]
    ELSE Const2(Undefined)

Four(v) == <<v, v, v, v>>

\* CalQvec appends to the five vectors it is given; the result is the five
\* vectors after the call.
CalQvec(nmode, coll, tracks, use, gainFT0, gainFV0, offset, QvecRe, QvecIm, QvecAmp, TrkBPosLabel, TrkBNegLabel) ==
  LET zero2 == [det |-> ZeroAcc, m |-> ZeroAcc]
      ft0   == FT0Block(coll, use)
      useA  == use["QvectorFT0As"]
      useC  == use["QvectorFT0Cs"]
      useM  == use["QvectorFT0Ms"]
      afterA == IF ft0 /\ useA
                  THEN ChannelLoop(0, coll.ft0A, 0, 1, nmode, gainFT0, offset.ft0, zero2)
                  ELSE zero2
      afterC == IF ft0 /\ useC
                  THEN ChannelLoop(0, coll.ft0C, FT0COffset, 1, nmode, gainFT0, offset.ft0,
                                   StartFT0C(afterA))
                  ELSE [det |-> ZeroAcc, m |-> afterA.m]
      sumAmplFT0A == afterA.det.sum
      sumAmplFT0C == afterC.det.sum
      sumAmplFT0M == afterC.m.sum
      qVectFT0A == IF ft0 THEN FT0AVector(useA, sumAmplFT0A, afterA.det) ELSE Const2(Disabled)
      qVectFT0C == IF ft0 THEN FT0CVector(useC, sumAmplFT0C, afterC.det) ELSE Const2(Disabled)
      qVectFT0M == IF ft0 THEN FT0MVector(useM, sumAmplFT0M, afterC.m) ELSE Const2(Disabled)
      fv0   == FV0Block(coll, use)
      afterV == IF fv0
                  THEN ChannelLoop(1, coll.fv0, 0, 1, nmode, gainFV0, offset.fv0, zero2)
                  ELSE zero2
      sumAmplFV0A == afterV.det.sum
      qVectFV0A == IF fv0 THEN FV0AVector(sumAmplFV0A, afterV.det) ELSE Const2(Disabled)
      trk   == TrackLoop(tracks, 1, nmode, use, TrkBPosLabel, TrkBNegLabel, ZeroTrk)
      qVectBPos == TrackVector(trk.posRe, trk.posIm, trk.nTrkBPos)
      qVectBNeg == TrackVector(trk.negRe, trk.negIm, trk.nTrkBNeg)
  IN  [QvecRe |-> QvecRe \o Four(qVectFT0C.re) \o Four(qVectFT0A.re) \o Four(qVectFT0M.re)
                         \o Four(qVectFV0A.re) \o Four(qVectBPos.re) \o Four(qVectBNeg.re),
       QvecIm |-> QvecIm \o Four(qVectFT0C.im) \o Four(qVectFT0A.im) \o Four(qVectFT0M.im)
                         \o Four(qVectFV0A.im) \o Four(qVectBPos.im) \o Four(qVectBNeg.im),
       QvecAmp |-> QvecAmp \o <<sumAmplFT0C, sumAmplFT0A, sumAmplFT0M, sumAmplFV0A,
                                trk.nTrkBPos, trk.nTrkBNeg>>,
       TrkBPosLabel |-> trk.posLabel,
       TrkBNegLabel |-> trk.negLabel]

\* ------------------------------------------------------------------ inputs
\* Channel identifiers used by the events of the model.
FT0Ids == {0, 1, 2, FT0COffset, FT0COffset + 1, FT0COffset + 2}
FV0Ids == {0, 1, 2}

\* An object the conditions database does not have is the empty sequence,
\* an object it has is a sequence of one element.
NoObj == <<>>
Obj(x) == <<x>>

DefaultGain(ids) == [c \in ids |-> 1]
LoadedGain(ids) == [c \in ids |-> IF c % 2 = 0 THEN 2 ELSE 1]

\* What the conditions database returns for the timestamp of a bunch crossing.
Snapshot(aFT0, aFV0, calib, gains) ==
  [alignFT0 |-> aFT0, alignFV0 |-> aFV0, calib |-> calib,
   gainFT0 |-> IF gains THEN Obj(LoadedGain(FT0Ids)) ELSE NoObj,
   gainFV0 |-> IF gains THEN Obj(LoadedGain(FV0Ids)) ELSE NoObj]

GoodSnapshots == {Snapshot(Obj(1), Obj(1), calib, TRUE) : calib \in SUBSET {2, 3}}
                 \cup {Snapshot(Obj(1), Obj(1), {2, 3}, FALSE)}
BadSnapshots == {Snapshot(NoObj, Obj(1), {2, 3}, TRUE), Snapshot(Obj(1), NoObj, {2, 3}, TRUE),
                 Snapshot(NoObj, NoObj, {2, 3}, TRUE)}
Snapshots == GoodSnapshots \cup BadSnapshots

Chan(ch, ampl) == [ch |-> ch, ampl |-> ampl]

Trk(pt, eta, phi) ==
  [pt |-> pt, eta |-> eta, phi |-> phi, globalIndex |-> 0,
   passedITSNCls |-> TRUE, passedITSChi2NDF |-> TRUE, passedITSHits |-> TRUE,
   passedTPCCrossedRowsOverNCls |-> TRUE, passedTPCChi2NDF |-> TRUE,
   passedDCAxy |-> TRUE, passedDCAz |-> TRUE]

\* A track table: the tracks of a collision with their global indices.
TrackTable(seq) == [i \in 1..Len(seq) |-> [seq[i] EXCEPT !.globalIndex = 10 + i]]

TrackPool ==
  {Trk(200, 0 - 50, 2), Trk(100, EtaMin, 0), Trk(100, 0 - EtaMax, 3),
   Trk(100, EtaMin - 1, 1), Trk(100, EtaMax + 1, 1), Trk(cfgMinPtOnTPC - 1, 50, 1),
   Trk(cfgMaxPtOnTPC + 1, 0 - 50, 1),
   [Trk(100, 50, 1) EXCEPT !.passedDCAz = FALSE]}

RECURSIVE SeqsUpTo(_, _)
SeqsUpTo(S, n) ==
  IF n = 0 THEN {<<>>}
  ELSE LET shorter == SeqsUpTo(S, n - 1)
       IN  shorter \cup {Append(s, x) : s \in shorter, x \in S}

TrackTables == {TrackTable(s) : s \in SeqsUpTo(TrackPool, MaxTracks)}

ChanOptions ==
  {<<>>, <<Chan(0, 0)>>, <<Chan(1, 60)>>, <<Chan(0, 40), Chan(1, 40)>>,
   <<Chan(0, 30), Chan(2, 0 - 20)>>}

Cents == {0 - CentScale, 0, 42 * CentScale + 1, CentLimit * CentScale - 1,
          CentLimit * CentScale, CentLimit * CentScale + 1}

Coll(run, c, hasFT0, a, cside, hasFV0, v) ==
  [runNumber |-> run,
   centFT0M |-> 200 * CentScale, centFT0A |-> 10 * CentScale,
   centFT0C |-> c, centFV0A |-> CentLimit * CentScale,
   has_foundFT0 |-> hasFT0, ft0A |-> a, ft0C |-> cside,
   has_foundFV0 |-> hasFV0, fv0 |-> v]

\* Collisions of the accumulation specification: every combination of the
\* detector payloads.
QvecColls ==
  {Coll(1, 0, TRUE, a, c, hasV, v) :
     a \in ChanOptions, c \in {<<>>, <<Chan(1, 60)>>, <<Chan(0, 30), Chan(2, 0 - 30)>>},
     hasV \in BOOLEAN, v \in {<<>>, <<Chan(2, 50)>>}}
  \cup {Coll(1, 0, FALSE, <<>>, <<>>, TRUE, v) : v \in ChanOptions}

\* Collisions and track tables of the processing specification.
Payloads ==
  {[ft0 |-> TRUE, a |-> <<Chan(1, 60)>>, c |-> <<Chan(0, 40), Chan(1, 40)>>,
    fv0 |-> TRUE, v |-> <<Chan(0, 50)>>,
    tracks |-> TrackTable(<<Trk(100, 50, 1), Trk(200, 0 - 50, 2)>>)],
   [ft0 |-> TRUE, a |-> <<>>, c |-> <<Chan(0, 0)>>,
    fv0 |-> FALSE, v |-> <<>>,
    tracks |-> TrackTable(<<Trk(cfgMinPtOnTPC - 1, 50, 1)>>)],
   [ft0 |-> FALSE, a |-> <<>>, c |-> <<>>,
    fv0 |-> TRUE, v |-> <<>>,
    tracks |-> TrackTable(<<Trk(100, 5, 1), Trk(300, 50, 3), Trk(100, EtaMax, 0)>>)]}

Workflows ==
  {{}, DetNames, {"QvectorFT0Cs"}, {"QvectorFT0As", "QvectorFT0Ms"}, {"QvectorFT0Ms"},
   {"QvectorFV0As", "QvectorBPoss"}, {"QvectorBNegs"}, {"QvectorBPoss", "QvectorBNegs"}}

\* ------------------------------------------------------------------ state
VARIABLES
  cfgnMods, useDetector, runNumber, cent, objQvec,
  FT0RelGainConst, FV0RelGainConst, offset,
  pc, coll, tracks, IsCalibrated, id,
  qvecRe_vec, qvecIm_vec, qvecAmp_vec, TrkBPosLabel_vec, TrkBNegLabel_vec,
  qvecRe, qvecIm, qvecAmp, TrkBPosLabel, TrkBNegLabel,
  qvecReDet_vec, qvecImDet_vec, qvecReDet, qvecImDet,
  qVector, qVectorDet, qVector_vec, qVectorDet_vec,
  ops_vec, ops, prevRun, reloaded, snapshot, nmodeArg,
  \* jflucWeightsLoader
  cfgPathPhiWeights, cfgForRunNumber, doprocess, ph, pf, weightsRunNumber, timestamp,
  useCCDB, output, loaderPc, loaderColl, loaderTracks

config == <<cfgnMods, useDetector>>
cache == <<runNumber, objQvec, FT0RelGainConst, FV0RelGainConst, offset, snapshot>>
event == <<coll, tracks, cent, IsCalibrated>>
locals_vec == <<qvecRe_vec, qvecIm_vec, qvecAmp_vec, TrkBPosLabel_vec, TrkBNegLabel_vec,
                qvecReDet_vec, qvecImDet_vec, ops_vec>>
locals == <<qvecRe, qvecIm, qvecAmp, TrkBPosLabel, TrkBNegLabel, qvecReDet, qvecImDet, ops>>
outputs == <<qVector, qVectorDet, qVector_vec, qVectorDet_vec>>
loader == <<cfgPathPhiWeights, cfgForRunNumber, doprocess, ph, pf, weightsRunNumber,
            timestamp, useCCDB, output, loaderPc, loaderColl, loaderTracks>>
vars == <<config, cache, event, locals_vec, locals, outputs, pc, id, prevRun, reloaded,
          nmodeArg, loader>>

NoColl == Coll(NoRun, 0, FALSE, <<>>, <<>>, FALSE, <<>>)
Dets == 0..kBNeg

\* The members of jflucWeightsLoader after construction, lines 45-53; a
\* pointer is the empty sequence when null.
LoaderConstructed ==
  /\ cfgPathPhiWeights = "ccdb"
  /\ cfgForRunNumber = FALSE
  /\ doprocess = {"LoadWeightsCF"}
  /\ ph = NoObj
  /\ pf = NoObj
  /\ weightsRunNumber = InitialRun
  /\ timestamp = 0
  /\ useCCDB = FALSE
  /\ output = <<>>
  /\ loaderPc = "constructed"
  /\ loaderColl = [runNumber |-> InitialRun, multiplicity |-> 0, posZ |-> 0]
  /\ loaderTracks = <<>>

Init ==
  /\ cfgnMods \in {<<2, 3>>, <<3, 2>>, <<3>>}
  /\ useDetector = [d \in DetNames |-> FALSE]
  /\ runNumber = NoRun
  /\ cent = 0
  /\ objQvec = <<>>
  /\ FT0RelGainConst = <<>>
  /\ FV0RelGainConst = <<>>
  /\ offset = [ft0 |-> 0, fv0 |-> 0]
  /\ pc = "constructed"
  /\ coll = NoColl
  /\ tracks = <<>>
  /\ IsCalibrated = TRUE
  /\ id = 0
  /\ qvecRe_vec = <<>> /\ qvecIm_vec = <<>> /\ qvecAmp_vec = <<>>
  /\ TrkBPosLabel_vec = <<>> /\ TrkBNegLabel_vec = <<>>
  /\ qvecRe = <<>> /\ qvecIm = <<>> /\ qvecAmp = <<>>
  /\ TrkBPosLabel = <<>> /\ TrkBNegLabel = <<>>
  /\ qvecReDet_vec = [d \in Dets |-> <<>>] /\ qvecImDet_vec = [d \in Dets |-> <<>>]
  /\ qvecReDet = [d \in Dets |-> <<>>] /\ qvecImDet = [d \in Dets |-> <<>>]
  /\ qVector = <<>>
  /\ qVectorDet = [d \in Dets |-> <<>>]
  /\ qVector_vec = <<>>
  /\ qVectorDet_vec = [d \in Dets |-> <<>>]
  /\ ops_vec = <<>> /\ ops = <<>>
  /\ prevRun = NoRun
  /\ reloaded = FALSE
  /\ snapshot = Snapshot(NoObj, NoObj, {}, FALSE)
  /\ nmodeArg = 0
  /\ LoaderConstructed

\* ------------------------------------------------------------------ init
\* init(): a sub-system is used when some device of the workflow subscribes
\* to its table or to the _vec variant of its table.
Subscribed(inputs, det) ==
  \E b \in inputs : b.table = det

init(inputs) ==
  /\ pc = "constructed"
  /\ useDetector' = [d \in DetNames |-> useDetector[d] \/ Subscribed(inputs, d)]
  /\ pc' = "idle"
  /\ UNCHANGED <<loader, cfgnMods, cache, event, locals_vec, locals, outputs, id, prevRun,
                 reloaded, nmodeArg>>

WorkflowInputs(W, vec) ==
  {[table |-> d, vec |-> vec] : d \in W} \cup {[table |-> "Tracks", vec |-> FALSE]}

\* ------------------------------------------------------------------ initCCDB
\* LoadCalib without the second lookup under v2.
LoadCalibNoFallback(calib, ind) ==
  IF ind \in calib THEN ind ELSE NullTable

\* The calibration table stored for harmonic ind: its own, else harmonic 2's.
LoadCalib(calib, ind) ==
  IF ind \in calib THEN ind
  ELSE IF 2 \in calib THEN 2 ELSE NullTable

LoadGain(obj, ids) == IF obj = NoObj THEN DefaultGain(ids) ELSE obj[1]

\* initCCDB without the fatal error of lines 198-201: a missing FV0 alignment
\* leaves the old FV0 offset in place.
initCCDBNoFV0Check(snap, mods, oldOffset, oldObjQvec) ==
  IF snap.alignFT0 = NoObj
    THEN [fatal |-> TRUE, offset |-> oldOffset, objQvec |-> oldObjQvec,
          FT0RelGainConst |-> <<>>, FV0RelGainConst |-> <<>>]
  ELSE [fatal |-> FALSE,
        offset |-> [ft0 |-> snap.alignFT0[1],
                    fv0 |-> IF snap.alignFV0 = NoObj THEN oldOffset.fv0
                            ELSE snap.alignFV0[1]],
        objQvec |-> [i \in 1..Len(mods) |-> LoadCalib(snap.calib, mods[i])],
        FT0RelGainConst |-> LoadGain(snap.gainFT0, FT0Ids),
        FV0RelGainConst |-> LoadGain(snap.gainFV0, FV0Ids)]

\* initCCDB: the cache after the reload, or where the fatal error left it.
initCCDB(snap, mods, oldOffset, oldObjQvec) ==
  IF snap.alignFT0 = NoObj
    THEN [fatal |-> TRUE, offset |-> oldOffset, objQvec |-> oldObjQvec,
          FT0RelGainConst |-> <<>>, FV0RelGainConst |-> <<>>]
  ELSE IF snap.alignFV0 = NoObj
    THEN [fatal |-> TRUE, offset |-> [oldOffset EXCEPT !.ft0 = snap.alignFT0[1]],
          objQvec |-> oldObjQvec,
          FT0RelGainConst |-> <<>>, FV0RelGainConst |-> <<>>]
  ELSE [fatal |-> FALSE,
        offset |-> [ft0 |-> snap.alignFT0[1], fv0 |-> snap.alignFV0[1]],
        objQvec |-> [i \in 1..Len(mods) |-> LoadCalib(snap.calib, mods[i])],
        FT0RelGainConst |-> LoadGain(snap.gainFT0, FT0Ids),
        FV0RelGainConst |-> LoadGain(snap.gainFV0, FV0Ids)]

\* ------------------------------------------------------------------ process
\* NeedsReload that does not look at the cached run number.
NeedsReloadAlways(cached, currentRun) == TRUE

NeedsReload(cached, currentRun) == cached # currentRun

CentOutside(c) == c < 0 \/ c > CentLimit * CentScale

\* CorrectionsApply with the comparison of line 503 (80 itself corrected).
CorrectionsApplyInclusive(c) == c <= CentLimit * CentScale

CorrectionsApply(c) == c < CentLimit * CentScale

\* static_cast<int>(cent) + 1
CentBin(c) == (c \div CentScale) + 1

CentAllEstim(c) == <<c.centFT0M, c.centFT0A, c.centFT0C, c.centFV0A>>

\* CascadeSteps with the twist of the second pass called before its recenter.
CascadeStepsTwistFirst ==
  <<[op |-> "recenter", pass |-> 1],
    [op |-> "twist", pass |-> 2], [op |-> "recenter", pass |-> 2],
    [op |-> "recenter", pass |-> 3], [op |-> "twist", pass |-> 3],
    [op |-> "rescale", pass |-> 3]>>

\* The six correction calls of one sub-system, in program order, with the
\* pass each belongs to.
CascadeSteps ==
  <<[op |-> "recenter", pass |-> 1],
    [op |-> "recenter", pass |-> 2], [op |-> "twist", pass |-> 2],
    [op |-> "recenter", pass |-> 3], [op |-> "twist", pass |-> 3],
    [op |-> "rescale", pass |-> 3]>>

\* PassSlot with every pass working on the same slot.
PassSlotShared(pass) == 3

\* The stage slot a pass works on.
PassSlot(pass) == pass

\* Index (from 1) of a stage slot in the flat vectors.
SlotIndex(base, i, slot) == base + i * 4 + slot + 1

HarmonicBase(idx) == (kBNeg + 1) * 4 * idx

ApplyStep(v, op, h, bin, i) ==
  CASE op = "recenter" ->
         DoRecenter(v, GetBinContent(h, bin, 1, i + 1), GetBinContent(h, bin, 2, i + 1))
    [] op = "twist" ->
         DoTwist(v, GetBinContent(h, bin, 3, i + 1), GetBinContent(h, bin, 4, i + 1))
    [] OTHER ->
         DoRescale(v, GetBinContent(h, bin, 5, i + 1), GetBinContent(h, bin, 6, i + 1))

Slot(re, im, o) == [re |-> re, im |-> im, ops |-> o]

Applied(q, v, op) == Slot(q.re, q.im, Append(v.ops, op))

\* One stage slot after the correction calls of sub-system i that work on
\* it, taken in program order from call k on; v is [re, im, ops].
RECURSIVE CorrectSlot(_, _, _, _, _, _)
CorrectSlot(v, slot, h, bin, i, k) ==
  IF k > Len(CascadeSteps) THEN v
  ELSE IF PassSlot(CascadeSteps[k].pass) # slot
    THEN CorrectSlot(v, slot, h, bin, i, k + 1)
  ELSE CorrectSlot(Applied(ApplyStep(v, CascadeSteps[k].op, h, bin, i), v,
                           CascadeSteps[k].op),
                   slot, h, bin, i, k + 1)

Unzip(all) ==
  [Re  |-> [j \in 1..Len(all) |-> all[j].re],
   Im  |-> [j \in 1..Len(all) |-> all[j].im],
   Ops |-> [j \in 1..Len(all) |-> all[j].ops]]

\* The loop over the six sub-systems, lines 512-527: the vectors after it.
Corrections(vecs, base, h, bin) ==
  Unzip([j \in 1..Len(vecs.Re) |->
           IF j > base
             THEN CorrectSlot(Slot(vecs.Re[j], vecs.Im[j], vecs.Ops[j]),
                              (j - base - 1) % 4, h, bin, (j - base - 1) \div 4, 1)
             ELSE Slot(vecs.Re[j], vecs.Im[j], vecs.Ops[j])])

NoOps == [j \in 1..(4 * (kBNeg + 1)) |-> <<>>]

\* What a read through a null table pointer may return when it does not crash.
GarbageTables == {7}

ResetLocals ==
  /\ qvecRe_vec' = <<>> /\ qvecIm_vec' = <<>> /\ qvecAmp_vec' = <<>>
  /\ TrkBPosLabel_vec' = <<>> /\ TrkBNegLabel_vec' = <<>>
  /\ qvecRe' = <<>> /\ qvecIm' = <<>> /\ qvecAmp' = <<>>
  /\ TrkBPosLabel' = <<>> /\ TrkBNegLabel' = <<>>
  /\ qvecReDet_vec' = [d \in Dets |-> <<>>] /\ qvecImDet_vec' = [d \in Dets |-> <<>>]
  /\ qvecReDet' = [d \in Dets |-> <<>>] /\ qvecImDet' = [d \in Dets |-> <<>>]
  /\ ops_vec' = <<>> /\ ops' = <<>>

\* Lines 498-506.
SelectCent(c) ==
  LET sel == CentAllEstim(c)[cfgCentEsti + 1]
  IN  /\ cent' = IF CentOutside(sel) THEN CentSentinel * CentScale ELSE sel
      /\ IsCalibrated' = ~CentOutside(sel)

\* process, lines 449-506, when the run number is the cached one.
ProcessBeginCached(c, t) ==
  /\ pc = "idle"
  /\ ~NeedsReload(runNumber, c.runNumber)
  /\ coll' = c /\ tracks' = t
  /\ ResetLocals
  /\ reloaded' = FALSE
  /\ SelectCent(c)
  /\ pc' = "harmonics" /\ id' = 0
  /\ UNCHANGED <<loader, config, cache, outputs, prevRun, nmodeArg>>

\* process, lines 449-506, with the reload of the run-scoped cache.
ProcessBeginReload(c, t, snap) ==
  /\ pc = "idle"
  /\ NeedsReload(runNumber, c.runNumber)
  /\ coll' = c /\ tracks' = t
  /\ ResetLocals
  /\ reloaded' = TRUE
  /\ snapshot' = snap
  /\ LET r == initCCDB(snap, cfgnMods, offset, objQvec)
     IN  /\ offset' = r.offset
         /\ objQvec' = r.objQvec
         /\ FT0RelGainConst' = r.FT0RelGainConst
         /\ FV0RelGainConst' = r.FV0RelGainConst
         /\ IF r.fatal
              THEN /\ pc' = "fatal"
                   /\ UNCHANGED <<runNumber, cent, IsCalibrated, id>>
              ELSE /\ runNumber' = c.runNumber
                   /\ SelectCent(c)
                   /\ pc' = "harmonics" /\ id' = 0
  /\ UNCHANGED <<loader, config, outputs, prevRun, nmodeArg>>

\* One iteration of the loop over cfgnMods, lines 508-542; table is what
\* the reads of objQvec.at(id) return.
HarmonicBody(table) ==
  \E r \in {CalQvec(cfgnMods[id + 1], coll, tracks, useDetector, FT0RelGainConst,
                      FV0RelGainConst, offset, qvecRe_vec, qvecIm_vec, qvecAmp_vec,
                      TrkBPosLabel_vec, TrkBNegLabel_vec)} :
  LET raw  == [Re |-> r.QvecRe, Im |-> r.QvecIm, Ops |-> ops_vec \o NoOps]
      base == HarmonicBase(id)
  IN  \E cor \in {IF CorrectionsApply(cent)
                     THEN Corrections(raw, base, table, CentBin(cent))
                     ELSE raw} :
      /\ qvecRe_vec' = cor.Re /\ qvecIm_vec' = cor.Im /\ ops_vec' = cor.Ops
      /\ qvecAmp_vec' = r.QvecAmp
      /\ TrkBPosLabel_vec' = r.TrkBPosLabel /\ TrkBNegLabel_vec' = r.TrkBNegLabel
      /\ qvecReDet_vec' = [d \in Dets |-> Append(qvecReDet_vec[d], cor.Re[SlotIndex(base, d, 3)])]
      /\ qvecImDet_vec' = [d \in Dets |-> Append(qvecImDet_vec[d], cor.Im[SlotIndex(base, d, 3)])]
      /\ id' = id + 1
      /\ pc' = "harmonics"
      /\ UNCHANGED <<loader, config, cache, event, locals, outputs, prevRun, reloaded, nmodeArg>>

Crash ==
  /\ pc' = "crashed"
  /\ UNCHANGED <<loader, config, cache, event, locals_vec, locals, outputs, id, prevRun, reloaded,
                 nmodeArg>>

ProcessHarmonic ==
  /\ pc = "harmonics"
  /\ id < Len(cfgnMods)
  /\ IF CorrectionsApply(cent) /\ objQvec[id + 1] = NullTable
       THEN Crash \/ \E g \in GarbageTables : HarmonicBody(g)
       ELSE HarmonicBody(objQvec[id + 1])

\* The harmonic-2 vectors, lines 544-576; table is what the reads of
\* objQvec.at(0) return.
Psi2Body(table) ==
  \E r \in {CalQvec(2, coll, tracks, useDetector, FT0RelGainConst, FV0RelGainConst,
                      offset, qvecRe, qvecIm, qvecAmp, TrkBPosLabel, TrkBNegLabel)} :
  LET raw  == [Re |-> r.QvecRe, Im |-> r.QvecIm, Ops |-> ops \o NoOps]
  IN  \E cor \in {IF CorrectionsApply(cent)
                     THEN Corrections(raw, 0, table, CentBin(cent))
                     ELSE raw} :
      /\ qvecRe' = cor.Re /\ qvecIm' = cor.Im /\ ops' = cor.Ops
      /\ qvecAmp' = r.QvecAmp
      /\ TrkBPosLabel' = r.TrkBPosLabel /\ TrkBNegLabel' = r.TrkBNegLabel
      /\ qvecReDet' = [d \in Dets |-> Append(qvecReDet[d], cor.Re[SlotIndex(0, d, 3)])]
      /\ qvecImDet' = [d \in Dets |-> Append(qvecImDet[d], cor.Im[SlotIndex(0, d, 3)])]
      /\ pc' = "fill"
      /\ UNCHANGED <<loader, config, cache, event, locals_vec, outputs, id, prevRun, reloaded,
                     nmodeArg>>

ProcessPsi2 ==
  /\ pc = "harmonics"
  /\ id = Len(cfgnMods)
  /\ IF CorrectionsApply(cent) /\ objQvec[1] = NullTable
       THEN Crash \/ \E g \in GarbageTables : Psi2Body(g)
       ELSE Psi2Body(objQvec[1])

\* DetRow with the track labels taken from the vectors of the harmonic loop.
DetRowLoopLabels(d) ==
  IF d \in {kBPos, kBNeg}
    THEN [IsCalibrated |-> IsCalibrated, QvecRe |-> qvecReDet[d][1],
          QvecIm |-> qvecImDet[d][1], NTrk |-> qvecAmp[d + 1],
          Labels |-> IF d = kBPos THEN TrkBPosLabel_vec ELSE TrkBNegLabel_vec]
    ELSE [IsCalibrated |-> IsCalibrated, QvecRe |-> qvecReDet[d][1],
          QvecIm |-> qvecImDet[d][1], SumAmpl |-> qvecAmp[d + 1]]

\* The row of a sub-system's table, lines 581-592.
DetRow(d) ==
  IF d \in {kBPos, kBNeg}
    THEN [IsCalibrated |-> IsCalibrated, QvecRe |-> qvecReDet[d][1],
          QvecIm |-> qvecImDet[d][1], NTrk |-> qvecAmp[d + 1],
          Labels |-> IF d = kBPos THEN TrkBPosLabel ELSE TrkBNegLabel]
    ELSE [IsCalibrated |-> IsCalibrated, QvecRe |-> qvecReDet[d][1],
          QvecIm |-> qvecImDet[d][1], SumAmpl |-> qvecAmp[d + 1]]

\* Fill the columns of the tables, lines 579-592; the cursors of the _vec
\* tables (lines 88-95) are not called.
ProcessFill ==
  /\ pc = "fill"
  /\ qVector' = Append(qVector, [Cent |-> cent, IsCalibrated |-> IsCalibrated,
                                 QvecRe |-> qvecRe, QvecIm |-> qvecIm, QvecAmp |-> qvecAmp])
  /\ qVectorDet' = [d \in Dets |->
                      IF useDetector[DetName(d)] THEN Append(qVectorDet[d], DetRow(d))
                      ELSE qVectorDet[d]]
  /\ UNCHANGED <<qVector_vec, qVectorDet_vec>>
  /\ pc' = "filled"
  /\ UNCHANGED <<loader, config, cache, event, locals_vec, locals, id, prevRun, reloaded, nmodeArg>>

\* process returns: its locals are gone, the rows belong to the framework.
ProcessReturn ==
  /\ pc = "filled"
  /\ pc' = "idle"
  /\ ResetLocals
  /\ coll' = NoColl /\ tracks' = <<>> /\ IsCalibrated' = TRUE
  /\ qVector' = <<>> /\ qVectorDet' = [d \in Dets |-> <<>>]
  /\ UNCHANGED <<qVector_vec, qVectorDet_vec>>
  /\ prevRun' = coll.runNumber
  /\ id' = 0
  /\ reloaded' = FALSE
  /\ UNCHANGED <<loader, config, cache, cent, nmodeArg>>

ProcColls ==
  {[c |-> Coll(run, ce, p.ft0, p.a, p.c, p.fv0, p.v), t |-> p.tracks] :
     run \in 1..MaxRun, ce \in Cents, p \in Payloads}

Next ==
  \/ \E W \in Workflows, vec \in BOOLEAN : init(WorkflowInputs(W, vec))
  \/ \E e \in ProcColls : ProcessBeginCached(e.c, e.t)
  \/ \E e \in ProcColls, snap \in Snapshots : ProcessBeginReload(e.c, e.t, snap)
  \/ ProcessHarmonic
  \/ ProcessPsi2
  \/ ProcessFill
  \/ ProcessReturn

Spec == Init /\ [][Next]_vars

\* ------------------------------------------------------------------ CalQvec alone
\* The accumulation specification: CalQvec called once, on any collision and
\* track table of its input sets, in a task whose init and initCCDB have run.
DefaultTracks == TrackTable(<<Trk(100, 50, 1), Trk(200, 0 - 50, 2)>>)
DefaultColl == Coll(1, 0, TRUE, <<Chan(1, 60)>>, <<Chan(0, 40), Chan(1, 40)>>, TRUE,
                    <<Chan(0, 50)>>)

QvecInputs ==
  {[c |-> c, t |-> DefaultTracks] : c \in QvecColls}
  \cup {[c |-> DefaultColl, t |-> t] : t \in TrackTables}

InitCalQvec ==
  /\ cfgnMods = <<2, 3>>
  /\ useDetector \in [DetNames -> BOOLEAN]
  /\ runNumber = 1
  /\ cent = 0
  /\ objQvec = <<2, 3>>
  /\ \E gains \in BOOLEAN :
       /\ snapshot = Snapshot(Obj(1), Obj(1), {2, 3}, gains)
       /\ FT0RelGainConst = LoadGain(snapshot.gainFT0, FT0Ids)
       /\ FV0RelGainConst = LoadGain(snapshot.gainFV0, FV0Ids)
  /\ offset = [ft0 |-> 1, fv0 |-> 1]
  /\ pc = "loaded"
  /\ coll = NoColl
  /\ tracks = <<>>
  /\ IsCalibrated = TRUE
  /\ id = 0
  /\ qvecRe_vec = <<>> /\ qvecIm_vec = <<>> /\ qvecAmp_vec = <<>>
  /\ TrkBPosLabel_vec = <<>> /\ TrkBNegLabel_vec = <<>>
  /\ qvecRe = <<>> /\ qvecIm = <<>> /\ qvecAmp = <<>>
  /\ TrkBPosLabel = <<>> /\ TrkBNegLabel = <<>>
  /\ qvecReDet_vec = [d \in Dets |-> <<>>] /\ qvecImDet_vec = [d \in Dets |-> <<>>]
  /\ qvecReDet = [d \in Dets |-> <<>>] /\ qvecImDet = [d \in Dets |-> <<>>]
  /\ qVector = <<>>
  /\ qVectorDet = [d \in Dets |-> <<>>]
  /\ qVector_vec = <<>>
  /\ qVectorDet_vec = [d \in Dets |-> <<>>]
  /\ ops_vec = <<>> /\ ops = <<>>
  /\ prevRun = NoRun
  /\ reloaded = TRUE
  /\ nmodeArg = 0
  /\ LoaderConstructed

CalQvecCall(nmode, c, t) ==
  /\ pc = "loaded"
  /\ \E r \in {CalQvec(nmode, c, t, useDetector, FT0RelGainConst, FV0RelGainConst,
                       offset, qvecRe, qvecIm, qvecAmp, TrkBPosLabel, TrkBNegLabel)} :
       /\ qvecRe' = r.QvecRe /\ qvecIm' = r.QvecIm /\ qvecAmp' = r.QvecAmp
       /\ TrkBPosLabel' = r.TrkBPosLabel /\ TrkBNegLabel' = r.TrkBNegLabel
  /\ coll' = c /\ tracks' = t /\ nmodeArg' = nmode
  /\ pc' = "called"
  /\ UNCHANGED <<loader, config, cache, cent, IsCalibrated, locals_vec, qvecReDet, qvecImDet, ops,
                 outputs, id, prevRun, reloaded>>

NextCalQvec ==
  \E nmode \in {2, 3}, e \in QvecInputs : CalQvecCall(nmode, e.c, e.t)

SpecCalQvec == InitCalQvec /\ [][NextCalQvec]_vars

\* ------------------------------------------------------ jflucWeightsLoader
\* A weight is an integer in units of 1/WeightScale.
qvectors == <<config, cache, event, locals_vec, locals, outputs, pc, id, prevRun, reloaded,
              nmodeArg>>

Switches == {"LoadWeights", "LoadWeightsCF", "LoadWeightsCF2Prong"}

\* What init() makes of cfgPathPhiWeights: a path that contains "ccdb", one
\* that does not and starts with "local://", any other.
PathKinds == {"ccdb", "local", "other"}

\* The content of the bin of histogram h the coordinates of a track fall in.
HistBinContent(h, c, track) ==
  WeightScale + 10 * ((h + track.phi + c.multiplicity) % 3) - 10

\* pf->Get("NUAWeights_<run>"): the local file is the set of its runs.
FileGet(file, run) == IF run \in file THEN Obj(run) ELSE NoObj

\* What the conditions database may return to initCCDB, lines 66-72: no
\* object, or the one of the run or of the timestamp.
CcdbAnswers(forRun, runNum, ts) == {NoObj, Obj(IF forRun THEN runNum ELSE ts)}

\* init(InitContext const&), lines 74-102, with the configuration read.
loaderInit(path, forRun, switches, opens, file) ==
  /\ loaderPc = "constructed"
  /\ cfgPathPhiWeights' = path /\ cfgForRunNumber' = forRun /\ doprocess' = switches
  /\ IF "LoadWeights" \notin switches /\ "LoadWeightsCF" \notin switches
       THEN loaderPc' = "ready" /\ UNCHANGED <<pf, useCCDB>>
     ELSE IF "LoadWeights" \in switches /\ "LoadWeightsCF" \in switches
       THEN loaderPc' = "fatal" /\ UNCHANGED <<pf, useCCDB>>
     ELSE IF path = "ccdb"
       THEN loaderPc' = "ready" /\ useCCDB' = TRUE /\ UNCHANGED pf
     ELSE IF path = "local"
       THEN IF opens
              THEN loaderPc' = "ready" /\ pf' = Obj(file) /\ useCCDB' = FALSE
              ELSE loaderPc' = "fatal" /\ pf' = NoObj /\ UNCHANGED useCCDB
     ELSE loaderPc' = "ready" /\ UNCHANGED <<pf, useCCDB>>
  /\ UNCHANGED <<ph, weightsRunNumber, timestamp, output, loaderColl, loaderTracks, qvectors>>

\* WeightRows that emits a row only when a histogram is loaded.
WeightRowsOnlyWeighted(h, c, t) ==
  IF h = NoObj THEN <<>>
  ELSE [i \in 1..Len(t) |->
          [phiWeight |-> HistBinContent(h[1], c, t[i]), effWeight |-> WeightScale]]

\* The loop over the tracks, lines 129-153: the rows given to the cursor.
WeightRows(h, c, t) ==
  [i \in 1..Len(t) |->
     [phiWeight |-> IF h # NoObj THEN HistBinContent(h[1], c, t[i]) ELSE WeightScale,
      effWeight |-> WeightScale]]

\* loadWeights, lines 107-154, called through process switch sw; answer is
\* what the conditions database returns if it is asked.  output holds the
\* rows the call gave to the cursor.
loadWeights(sw, c, t, answer) ==
  /\ loaderPc \in {"ready", "returned"}
  /\ sw \in doprocess
  /\ loaderColl' = c /\ loaderTracks' = t
  /\ IF pf = NoObj /\ ~useCCDB
       THEN /\ loaderPc' = "aborted"
            /\ output' = <<>>
            /\ UNCHANGED <<ph, weightsRunNumber>>
       ELSE \E h \in {IF c.runNumber # weightsRunNumber
                         THEN IF useCCDB THEN answer ELSE FileGet(pf[1], c.runNumber)
                         ELSE ph} :
              /\ ph' = h
              /\ weightsRunNumber' = c.runNumber
              /\ output' = WeightRows(h, c, t)
              /\ loaderPc' = "returned"
  /\ UNCHANGED <<cfgPathPhiWeights, cfgForRunNumber, doprocess, pf, timestamp, useCCDB,
                 qvectors>>

LoaderTrack(phi) == [phi |-> phi, eta |-> 0]
LoaderTrackTables == SeqsUpTo({LoaderTrack(0), LoaderTrack(1), LoaderTrack(2)}, MaxTracks)
LoaderColls == {[runNumber |-> r, multiplicity |-> 0, posZ |-> 0] : r \in InitialRun..MaxRun}

InitWeights == Init /\ cfgnMods = <<2, 3>>

NextWeights ==
  \/ \E path \in PathKinds, forRun \in BOOLEAN, switches \in SUBSET Switches,
        opens \in BOOLEAN, file \in SUBSET (InitialRun..MaxRun) :
       loaderInit(path, forRun, switches, opens, file)
  \/ \E sw \in Switches, c \in LoaderColls, t \in LoaderTrackTables :
       \E answer \in CcdbAnswers(cfgForRunNumber, c.runNumber, timestamp) :
         loadWeights(sw, c, t, answer)

SpecWeights == InitWeights /\ [][NextWeights]_vars

\* ------------------------------------------------------------------ properties
\* The raw (slot 0) vector of sub-system d in the vectors CalQvec filled.
RawVec(d) == [re |-> qvecRe[SlotIndex(0, d, 0)], im |-> qvecIm[SlotIndex(0, d, 0)]]

ChannelDets == {kFT0C, kFT0A, kFT0M, kFV0A}

Present(d) == IF d = kFV0A THEN coll.has_foundFV0 ELSE coll.has_foundFT0

Enabled(d) == useDetector[DetName(d)]

\* C1: an enabled channel-based sub-system whose detector is in the event and
\* whose amplitude sum is not above the threshold gets the raw vector
\* (999, 999) from CalQvec.
C1_UndefinedWhenNoAmplitude ==
  pc = "called" =>
    \A d \in ChannelDets :
      (Enabled(d) /\ Present(d) /\ ~(qvecAmp[d + 1] > 0)) => RawVec(d) = Const2(Undefined)

\* C2: a sub-system that is disabled, or whose detector is not in the event,
\* gets the raw vector (-999, -999) from CalQvec.
C2_DisabledIsMinus999 ==
  pc = "called" =>
    /\ \A d \in ChannelDets : (~Enabled(d) \/ ~Present(d)) => RawVec(d) = Const2(Disabled)
    /\ \A d \in {kBPos, kBNeg} : ~Enabled(d) => RawVec(d) = Const2(Disabled)

InRange(trk) == Abs(trk.eta) >= EtaMin /\ Abs(trk.eta) <= EtaMax

InLabels(labels, trk) == \E j \in 1..Len(labels) : labels[j] = trk.globalIndex

TrackIdx == 1..Len(tracks)

\* C8 as stated: every selected track in the eta range is in exactly one of
\* the two sub-events, BPos for eta > 0 and BNeg for eta < 0.
C8_Original_ExactlyOne ==
  pc = "called" =>
    \A i \in TrackIdx :
      (SelTrack(tracks[i]) /\ InRange(tracks[i])) =>
        /\ InLabels(TrkBPosLabel, tracks[i]) = (tracks[i].eta > 0)
        /\ InLabels(TrkBNegLabel, tracks[i]) = (tracks[i].eta < 0)

\* C8 amended: a selected track in the eta range is in the sub-event of its
\* eta sign exactly when that sub-event is enabled, in no other case is a
\* track in a sub-event, and no track is in both.
C8_OneWhenEnabled ==
  pc = "called" =>
    \A i \in TrackIdx :
      LET trk == tracks[i]
          ok  == SelTrack(trk) /\ InRange(trk)
      IN  /\ InLabels(TrkBPosLabel, trk) = (ok /\ trk.eta > 0 /\ Enabled(kBPos))
          /\ InLabels(TrkBNegLabel, trk) = (ok /\ trk.eta < 0 /\ Enabled(kBNeg))
          /\ ~(InLabels(TrkBPosLabel, trk) /\ InLabels(TrkBNegLabel, trk))
          /\ qvecAmp[kBPos + 1] = Len(TrkBPosLabel)
          /\ qvecAmp[kBNeg + 1] = Len(TrkBNegLabel)

C8_Witness ==
  /\ pc = "called"
  /\ Enabled(kBPos) /\ ~Enabled(kBNeg)
  /\ \E i \in TrackIdx : SelTrack(tracks[i]) /\ tracks[i].eta = EtaMin
                         /\ InLabels(TrkBPosLabel, tracks[i])
  /\ \E i \in TrackIdx : SelTrack(tracks[i]) /\ tracks[i].eta = 0 - EtaMax
                         /\ ~InLabels(TrkBNegLabel, tracks[i])

\* -- process --------------------------------------------------------------
Selected == CentAllEstim(coll)[cfgCentEsti + 1]

InWindow(c) == c >= 0 /\ c < CentLimit * CentScale

Computing == pc \in {"harmonics", "fill", "filled"}

\* The slots of the harmonics already computed.
SlotsOf(vec) == 1..Len(vec)
RawIndex(j) == 4 * ((j - 1) \div 4) + 1
StageOf(j) == (j - 1) % 4
SubOf(j) == ((j - 1) \div 4) % (kBNeg + 1)
HarmOf(j) == (j - 1) \div (4 * (kBNeg + 1))

\* C3: the row of the event has IsCalibrated false and centrality 110 when
\* the selected centrality is outside [0,80), and IsCalibrated true and the
\* selected centrality when it is inside.
C3_CalibratedIffInWindow ==
  pc = "filled" =>
    IF InWindow(Selected)
      THEN qVector[1].IsCalibrated /\ qVector[1].Cent = Selected
      ELSE ~qVector[1].IsCalibrated /\ qVector[1].Cent = CentSentinel * CentScale

\* C4: when the selected centrality is 80 or more, or negative, the three
\* corrected stage slots of every harmonic and sub-system equal the raw slot.
C4_NoOpOutsideWindow ==
  (Computing /\ ~InWindow(Selected)) =>
    /\ \A j \in SlotsOf(qvecRe_vec) :
         /\ qvecRe_vec[j] = qvecRe_vec[RawIndex(j)]
         /\ qvecIm_vec[j] = qvecIm_vec[RawIndex(j)]
         /\ ops_vec[j] = <<>>
    /\ \A j \in SlotsOf(qvecRe) :
         /\ qvecRe[j] = qvecRe[RawIndex(j)]
         /\ qvecIm[j] = qvecIm[RawIndex(j)]
         /\ ops[j] = <<>>

C4_Witness ==
  /\ pc = "filled"
  /\ Selected = CentLimit * CentScale
  /\ objQvec[1] # NullTable
  /\ Len(qvecRe_vec) = 4 * (kBNeg + 1) * Len(cfgnMods)
  /\ RawVec(kFT0C).re \notin {Undefined, Disabled}
  /\ RawVec(kBPos).re \notin {Undefined, Disabled}

\* The harmonic of index k (from 1) has neither its own table nor harmonic 2's.
MissingBoth(k) == cfgnMods[k] \notin snapshot.calib /\ 2 \notin snapshot.calib

\* C5: a harmonic with neither table is left as accumulated, and process
\* goes on to the end.
C5_MissingTableSkipped ==
  /\ pc # "crashed"
  /\ Computing =>
       \A j \in SlotsOf(qvecRe_vec) :
         MissingBoth(HarmOf(j) + 1) =>
           /\ qvecRe_vec[j] = qvecRe_vec[RawIndex(j)]
           /\ qvecIm_vec[j] = qvecIm_vec[RawIndex(j)]

Loaded == pc \notin {"constructed", "fatal"} /\ runNumber # NoRun

\* C6: after a reload the table stored for a harmonic is its own when the
\* database has it, and harmonic 2's when it has not but has harmonic 2's;
\* the corrections of that harmonic subtract the means of the stored table.
C6_FallbackToHarmonic2 ==
  Loaded =>
    /\ \A k \in 1..Len(cfgnMods) :
         /\ cfgnMods[k] \in snapshot.calib => objQvec[k] = cfgnMods[k]
         /\ (cfgnMods[k] \notin snapshot.calib /\ 2 \in snapshot.calib) => objQvec[k] = 2
    /\ (Computing /\ InWindow(Selected)) =>
         \A j \in SlotsOf(qvecRe_vec) :
           (StageOf(j) = 1 /\ cfgnMods[HarmOf(j) + 1] \notin snapshot.calib
              /\ 2 \in snapshot.calib) =>
             /\ qvecRe_vec[j] = qvecRe_vec[RawIndex(j)]
                                  - GetBinContent(2, CentBin(cent), 1, SubOf(j) + 1)
             /\ qvecIm_vec[j] = qvecIm_vec[RawIndex(j)]
                                  - GetBinContent(2, CentBin(cent), 2, SubOf(j) + 1)

C6_Witness ==
  /\ pc = "filled"
  /\ InWindow(Selected)
  /\ cfgnMods = <<2, 3>>
  /\ snapshot.calib = {2}
  /\ objQvec = <<2, 2>>
  /\ qvecRe_vec[SlotIndex(HarmonicBase(1), kFT0C, 1)]
       = qvecRe_vec[SlotIndex(HarmonicBase(1), kFT0C, 0)]
           - GetBinContent(2, CentBin(cent), 1, kFT0C + 1)

\* C7: the cache is reloaded for an event exactly when the event is the
\* first one or its run number differs from the previous event's, and while
\* the event is computed the cached run number is the event's.
C7_ReloadOnRunChange ==
  /\ (Computing \/ pc = "crashed") =>
       /\ runNumber = coll.runNumber
       /\ reloaded = (prevRun = NoRun \/ coll.runNumber # prevRun)
  /\ pc = "fatal" => (reloaded /\ (prevRun = NoRun \/ coll.runNumber # prevRun))

C7_Witness ==
  /\ pc = "filled"
  /\ reloaded
  /\ prevRun = MaxRun
  /\ coll.runNumber = 1
  /\ runNumber = 1

C7_WitnessSameRun ==
  /\ pc = "filled" /\ ~reloaded /\ prevRun = coll.runNumber

NoTrackSelected == \A i \in TrackIdx : ~SelTrack(tracks[i])

\* C9: when no track passes the selection, the vectors of the two track
\* sub-events in the rows of the event are (999, 999) and their counts 0.
C9_NoTracksGiveUndefined ==
  (pc = "filled" /\ NoTrackSelected) =>
    \A d \in {kBPos, kBNeg} :
      /\ \A st \in 0..3 :
           /\ qVector[1].QvecRe[SlotIndex(0, d, st)] = Undefined
           /\ qVector[1].QvecIm[SlotIndex(0, d, st)] = Undefined
      /\ qVector[1].QvecAmp[d + 1] = 0
      /\ Enabled(d) =>
           /\ qVectorDet[d][1].QvecRe = Undefined
           /\ qVectorDet[d][1].QvecIm = Undefined
           /\ qVectorDet[d][1].NTrk = 0

Count(seq, x) == Cardinality({j \in 1..Len(seq) : seq[j] = x})

\* C10 as stated: the vector of the third pass has had the mean subtracted
\* three times.
C10_Original_RecenterCompounds ==
  (Computing /\ InWindow(Selected)) =>
    /\ \A j \in SlotsOf(qvecRe_vec) : StageOf(j) = 3 => Count(ops_vec[j], "recenter") = 3
    /\ \A j \in SlotsOf(qvecRe) : StageOf(j) = 3 => Count(ops[j], "recenter") = 3

\* The table the corrections of harmonic index k (from 1) read.
FullChain(raw, h, bin, i) ==
  DoRescale(DoTwist(DoRecenter(raw, GetBinContent(h, bin, 1, i + 1),
                                    GetBinContent(h, bin, 2, i + 1)),
                    GetBinContent(h, bin, 3, i + 1), GetBinContent(h, bin, 4, i + 1)),
            GetBinContent(h, bin, 5, i + 1), GetBinContent(h, bin, 6, i + 1))

\* C10 amended: each pass works on its own copy of the raw vector, so the
\* vector of the third pass has had the mean subtracted once, then one
\* twist and one rescale; the first-pass copy is the raw vector recentered
\* once and the second-pass copy recentered once and twisted once.
C10_RecenterOncePerSlot ==
  (Computing /\ InWindow(Selected)) =>
    /\ \A j \in SlotsOf(qvecRe_vec) :
         /\ StageOf(j) = 1 => ops_vec[j] = <<"recenter">>
         /\ StageOf(j) = 2 => ops_vec[j] = <<"recenter", "twist">>
         /\ StageOf(j) = 3 =>
              /\ ops_vec[j] = <<"recenter", "twist", "rescale">>
              /\ objQvec[HarmOf(j) + 1] # NullTable =>
                   [re |-> qvecRe_vec[j], im |-> qvecIm_vec[j]]
                     = FullChain([re |-> qvecRe_vec[RawIndex(j)], im |-> qvecIm_vec[RawIndex(j)]],
                                 objQvec[HarmOf(j) + 1], CentBin(cent), SubOf(j))
    /\ \A j \in SlotsOf(qvecRe) :
         StageOf(j) = 3 =>
           /\ ops[j] = <<"recenter", "twist", "rescale">>
           /\ objQvec[1] # NullTable =>
                [re |-> qvecRe[j], im |-> qvecIm[j]]
                  = FullChain([re |-> qvecRe[RawIndex(j)], im |-> qvecIm[RawIndex(j)]],
                              objQvec[1], CentBin(cent), SubOf(j))

C10_Witness ==
  /\ pc = "filled"
  /\ qVector[1].IsCalibrated
  /\ objQvec[1] # NullTable
  /\ Enabled(kFT0C)
  /\ RawVec(kFT0C).re \notin {Undefined, Disabled}
  /\ qvecRe[SlotIndex(0, kFT0C, 3)] # qvecRe[SlotIndex(0, kFT0C, 0)]
  /\ ops[SlotIndex(0, kFT0C, 3)] = <<"recenter", "twist", "rescale">>

\* The calls recorded for the stage slots of one flat vector.
HasEarlier(o, p, op) == \E q \in 1..(p - 1) : o[q] = op

OrderedPass(o, stage) ==
  /\ stage = 0 => o = <<>>
  /\ \A p \in 1..Len(o) :
       /\ o[p] = "twist" => HasEarlier(o, p, "recenter")
       /\ o[p] = "rescale" =>
            /\ stage = 3
            /\ HasEarlier(o, p, "recenter")
            /\ HasEarlier(o, p, "twist")

\* C11: for every event, harmonic and sub-system the corrections run as
\* three passes, recenter; recenter then twist; recenter then twist then
\* rescale: the raw slot is never corrected, a twist always follows a
\* recenter of its pass, a rescale happens only in the third pass after
\* that pass's recenter and twist, and in the centrality window pass p
\* makes exactly p calls, the first one a recenter.
C11_PassOrder ==
  Computing =>
    /\ \A j \in SlotsOf(ops_vec) :
         /\ OrderedPass(ops_vec[j], StageOf(j))
         /\ InWindow(Selected) =>
              (Len(ops_vec[j]) = StageOf(j)
                 /\ (StageOf(j) > 0 => ops_vec[j][1] = "recenter"))
    /\ \A j \in SlotsOf(ops) :
         /\ OrderedPass(ops[j], StageOf(j))
         /\ InWindow(Selected) =>
              (Len(ops[j]) = StageOf(j)
                 /\ (StageOf(j) > 0 => ops[j][1] = "recenter"))

C11_Witness ==
  /\ pc = "fill"
  /\ InWindow(Selected)
  /\ Len(cfgnMods) = 2
  /\ ops_vec[SlotIndex(HarmonicBase(1), kBNeg, 2)] = <<"recenter", "twist">>
  /\ ops_vec[SlotIndex(HarmonicBase(1), kBNeg, 3)] = <<"recenter", "twist", "rescale">>
  /\ ops[SlotIndex(0, kFV0A, 1)] = <<"recenter">>
  /\ ops[SlotIndex(0, kFV0A, 0)] = <<>>

\* The first-pass copy at index j of the flat vectors is the raw vector
\* less the means that table h stores for the sub-system and centrality bin.
RecenteredWith(re, im, j, h) ==
  /\ re[j] = re[RawIndex(j)] - GetBinContent(h, CentBin(cent), 1, SubOf(j) + 1)
  /\ im[j] = im[RawIndex(j)] - GetBinContent(h, CentBin(cent), 2, SubOf(j) + 1)

\* C12: with the tables of the run fixed, the means subtracted from a vector
\* are those its own harmonic's table stores for its sub-system and
\* centrality bin, whatever the configured harmonic list is: a vector of a
\* configured harmonic whose table the database has is recentered with that
\* table, and the harmonic-2 vectors of the event are recentered with the
\* harmonic-2 table whenever the database has it.
C12_MeansDependOnOwnHarmonic ==
  (Computing /\ InWindow(Selected)) =>
    /\ \A j \in SlotsOf(qvecRe_vec) :
         (StageOf(j) = 1 /\ cfgnMods[HarmOf(j) + 1] \in snapshot.calib) =>
           RecenteredWith(qvecRe_vec, qvecIm_vec, j, cfgnMods[HarmOf(j) + 1])
    /\ \A j \in SlotsOf(qvecRe) :
         (StageOf(j) = 1 /\ 2 \in snapshot.calib) =>
           RecenteredWith(qvecRe, qvecIm, j, 2)

\* The rows emitted for the event carry the fully corrected vector of
\* sub-system d for the harmonic at index k (from 1) of the configured list.
CarriesHarmonic(k, d) ==
  LET j == SlotIndex(HarmonicBase(k - 1), d, 3)
      j2 == SlotIndex(0, d, 3)
  IN  \/ /\ Len(qVector_vec) = 1
         /\ qVector_vec[1].QvecRe[j] = qvecRe_vec[j]
         /\ qVector_vec[1].QvecIm[j] = qvecIm_vec[j]
      \/ /\ cfgnMods[k] = 2
         /\ qVector[1].QvecRe[j2] = qvecRe_vec[j]
         /\ qVector[1].QvecIm[j2] = qvecIm_vec[j]

\* C13: for every collision exactly one event row is emitted, not before
\* all its vectors are computed, and the rows emitted for the collision
\* carry the six corrected sub-system vectors of every configured harmonic.
C13_OneRecordEveryHarmonic ==
  /\ pc \in {"harmonics", "fill"} => (qVector = <<>> /\ qVector_vec = <<>>)
  /\ pc = "filled" =>
       /\ Len(qVector) = 1
       /\ \A k \in 1..Len(cfgnMods) : \A d \in Dets : CarriesHarmonic(k, d)

MissingAlignment == snapshot.alignFT0 = NoObj \/ snapshot.alignFV0 = NoObj

NothingEmitted ==
  /\ qVector = <<>> /\ qVector_vec = <<>>
  /\ \A d \in Dets : qVectorDet[d] = <<>> /\ qVectorDet_vec[d] = <<>>

\* C14: when the reload for an event finds the FT0 or the FV0 alignment
\* absent, processing stops with a fatal error: no vector of the event has
\* been computed, no row is emitted for it, and nothing runs afterwards, so
\* no later event is processed and no later row emitted.
C14_FatalOnMissingAlignment ==
  /\ [](/\ (reloaded /\ MissingAlignment) => pc = "fatal"
        /\ pc = "fatal" =>
             /\ reloaded /\ MissingAlignment
             /\ qvecRe_vec = <<>> /\ qvecIm_vec = <<>> /\ qvecRe = <<>> /\ qvecIm = <<>>
             /\ NothingEmitted)
  /\ [][pc = "fatal" => (pc' = "fatal" /\ NothingEmitted')]_vars

C14_Witness ==
  /\ pc = "fatal"
  /\ prevRun # NoRun
  /\ snapshot.alignFT0 # NoObj
  /\ snapshot.alignFV0 = NoObj

\* -- CalQvec: magnitude ----------------------------------------------------
\* The channels CalQvec adds into the accumulator of sub-system d.
ChannelsOf(d) ==
  CASE d = kFT0A -> coll.ft0A
    [] d = kFT0C -> coll.ft0C
    [] d = kFT0M -> (IF Enabled(kFT0A) THEN coll.ft0A ELSE <<>>)
                      \o (IF Enabled(kFT0C) THEN coll.ft0C ELSE <<>>)
    [] OTHER -> coll.fv0

NonNegative(chans) == \A i \in 1..Len(chans) : chans[i].ampl >= 0

\* |Q/W|^2 <= 1 in the scale of the vector components.
UnitBound(v) == v.re * v.re + v.im * v.im <= QScale * QScale

\* CalQvec normalised the vector of sub-system d by a sum above the threshold.
NormalisedBySum(d) ==
  /\ pc = "called"
  /\ Enabled(d) /\ Present(d)
  /\ AboveEps(qvecAmp[d + 1])

\* C15 as stated: for amplitudes of any sign whose gain-corrected sum is
\* above the threshold, the normalised vector of a channel-based sub-system
\* has magnitude at most 1.
C15_Original_BoundedAnySign ==
  \A d \in ChannelDets : NormalisedBySum(d) => UnitBound(RawVec(d))

\* C15 amended: for non-negative amplitudes and positive gains whose
\* gain-corrected sum is above the threshold, the normalised vector of a
\* channel-based sub-system has magnitude at most 1.
C15_BoundedNonNegative ==
  \A d \in ChannelDets :
    (NormalisedBySum(d) /\ NonNegative(ChannelsOf(d))) => UnitBound(RawVec(d))

C15_Witness ==
  /\ NormalisedBySum(kFT0M) /\ NormalisedBySum(kFT0C) /\ NormalisedBySum(kFT0A)
  /\ coll.ft0A = <<Chan(0, 40), Chan(1, 40)>>
  /\ coll.ft0C = <<Chan(1, 60)>>
  /\ UnitBound(RawVec(kFT0M))
  /\ RawVec(kFT0C).re * RawVec(kFT0C).re + RawVec(kFT0C).im * RawVec(kFT0C).im
       = QScale * QScale

\* -- jflucWeightsLoader ---------------------------------------------------
\* The rows of the call are one per track of the collision, in track order,
\* with effWeight 1 and phiWeight 1 when no histogram is loaded.
RowPerTrack ==
  /\ Len(output) = Len(loaderTracks)
  /\ \A i \in 1..Len(output) :
       /\ output[i].effWeight = WeightScale
       /\ ph = NoObj => output[i].phiWeight = WeightScale
       /\ ph # NoObj =>
            output[i].phiWeight = HistBinContent(ph[1], loaderColl, loaderTracks[i])

Sentinels == {Undefined, Disabled}

\* Every stage slot of a flat vector whose raw slot holds a sentinel in both
\* components holds that sentinel.
SentinelKept(re, im) ==
  \A j \in SlotsOf(re) :
    (re[RawIndex(j)] \in Sentinels /\ im[RawIndex(j)] = re[RawIndex(j)]) =>
      (re[j] = re[RawIndex(j)] /\ im[j] = im[RawIndex(j)])

\* C17: a sub-system whose raw vector is (999, 999) or (-999, -999) keeps
\* that value in every corrected stage slot and in its row, for every
\* centrality: no correction is applied to a sentinel.
C17_SentinelNeverCorrected ==
  Computing =>
    /\ SentinelKept(qvecRe_vec, qvecIm_vec)
    /\ SentinelKept(qvecRe, qvecIm)
    /\ pc = "filled" =>
         \A d \in Dets :
           (Enabled(d) /\ RawVec(d).re \in Sentinels /\ RawVec(d).im = RawVec(d).re) =>
             /\ qVectorDet[d][1].QvecRe = RawVec(d).re
             /\ qVectorDet[d][1].QvecIm = RawVec(d).im

\* -- CalQvec: independence of the sub-systems ------------------------------
\* The configuration that differs from the current one in flag f only.
Flipped(f) == [useDetector EXCEPT ![f] = ~useDetector[f]]

\* What CalQvec computes for the collision of the state under configuration u.
CalQvecUnder(u) ==
  CalQvec(nmodeArg, coll, tracks, u, FT0RelGainConst, FV0RelGainConst, offset,
          <<>>, <<>>, <<>>, <<>>, <<>>)

\* C18: the raw vector and the amplitude sum CalQvec computes for an enabled
\* sub-system are the same under every configuration that also enables it:
\* switching any other sub-system on or off changes neither.  (Stated for
\* one switched flag; every configuration is an initial configuration, so
\* this covers any two configurations that agree on the sub-system.)
C18_IndependentOfOtherFlags ==
  pc = "called" =>
    \A f \in DetNames :
      \A r \in {CalQvecUnder(Flipped(f))} :
        \A d \in Dets :
          (Enabled(d) /\ DetName(d) # f) =>
            /\ r.QvecRe[SlotIndex(0, d, 0)] = RawVec(d).re
            /\ r.QvecIm[SlotIndex(0, d, 0)] = RawVec(d).im
            /\ r.QvecAmp[d + 1] = qvecAmp[d + 1]

\* -- track labels ---------------------------------------------------------
\* The tracks of the event that contribute to track sub-event d, in the
\* order of the track table.
Contributes(trk, d) ==
  /\ SelTrack(trk) /\ InRange(trk)
  /\ IF d = kBPos THEN trk.eta > 0 ELSE trk.eta < 0

Contributing(d) == SelectSeq(tracks, LAMBDA trk : Contributes(trk, d))

GlobalIndices(seq) == [i \in 1..Len(seq) |-> seq[i].globalIndex]

\* C19: in every emitted row of a track sub-event the list of track
\* identifiers has as many entries as the reported count and is the list of
\* the tracks that passed SelTrack with 0.1 <= |eta| <= 0.8 and the
\* sub-event's sign of eta, each once, in the order of the track table.
C19_LabelsMatchCount ==
  pc = "filled" =>
    \A d \in {kBPos, kBNeg} :
      Enabled(d) =>
        /\ Len(qVectorDet[d]) = 1
        /\ Len(qVectorDet[d][1].Labels) = qVectorDet[d][1].NTrk
        /\ qVectorDet[d][1].Labels = GlobalIndices(Contributing(d))

C19_Witness ==
  /\ pc = "filled"
  /\ Len(cfgnMods) = 2
  /\ Enabled(kBPos)
  /\ Len(tracks) = 3
  /\ qVectorDet[kBPos][1].NTrk = 2
  /\ qVectorDet[kBPos][1].Labels = <<tracks[2].globalIndex, tracks[3].globalIndex>>

====
